---- MODULE Spec2Model ----
(***************************************************************************)
(* A state-machine model of the React hook useArbTokenBridge               *)
(* (src/src/hooks/useArbTokenBridge.ts).                                   *)
(*                                                                         *)
(* The hook keeps its state in useState/useLocalStorage cells and exposes  *)
(* async callbacks built with useCallback.  A callback closes over the     *)
(* values of the render in which it was created; an invocation that is     *)
(* suspended at an await keeps those values while other invocations        *)
(* publish new state.  Each in-flight invocation is a task holding its     *)
(* position (pc), its arguments, the captured values it still reads and    *)
(* its local variables.  A setter called with a function (setX(f)) is      *)
(* applied to the state current at that moment; a setter called with a     *)
(* value replaces it.  The two ledgers are the environment.                *)
(***************************************************************************)
EXTENDS Integers, Sequences, FiniteSets, TLC

\* ------------------------------------------------------------ bounds
\* invocations that may be in flight at the same time
MaxTasks == 2
\* units of the native currency (and of each asset) the wallet owns
MaxBal == 1
\* bit width the ledger's uint256 is scaled down to
UintWidth == 2
\* invocations the caller makes in one run
MaxCalls == 3

\* ------------------------------------------------------------ domains
Contracts == {"t1", "t2"}
NonContracts == {"x"}
Addr == Contracts \cup NonContracts

ERC20 == "ERC20"
ERC721 == "ERC721"
TokenType == {ERC20, ERC721}

MIN_APPROVAL == 2^UintWidth - 1

None == "none"
EmptyMap == [a \in {} |-> 0]

\* BridgeBalance: the four-tier view
BridgeBalance(b, a, t, l) ==
  [balance |-> b, arbChainBalance |-> a, totalArbBalance |-> t, lockBoxBalance |-> l]

ZeroBalance == BridgeBalance(0, 0, 0, 0)

\* what the wallet holds of one currency on the ledgers: the part on the
\* child chain and the part in its lockbox; the rest is on the home chain
Holdings == {h \in [child : 0..MaxBal, lock : 0..MaxBal] : h.child + h.lock <= MaxBal}

\* everything on the home chain
AtHome == [child |-> 0, lock |-> 0]

Slots == 1..MaxTasks

VARIABLES
  arbProvider,     \* useArbProvider's result is defined
  walletAddress,   \* "" until setConfig
  vmId,            \* "" until setConfig
  bridgeTokens,    \* [Addr -> None or a BridgeToken]
  ethBalances,
  erc20Balances,   \* a map: a function on the addresses it holds
  erc721Balances,
  ERC20Cache,      \* the persisted address lists
  ERC721Cache,
  ethLedger,       \* the ledgers (environment)
  tokLedger,
  kindOf,          \* the standard each contract implements
  allowance,
  operatorApproval,
  tasks,           \* the invocations in flight
  mounted,         \* the load only effect has run
  dirty,           \* a dependency of the reconcile effect changed
  calls,           \* invocations made by the caller so far
  ev               \* what the last step showed: a call's result, publications, a submission

progVars == <<arbProvider, walletAddress, vmId, bridgeTokens, ethBalances,
              erc20Balances, erc721Balances, ERC20Cache, ERC721Cache>>
ledgerVars == <<ethLedger, tokLedger, kindOf, allowance, operatorApproval>>
vars == <<progVars, ledgerVars, tasks, mounted, dirty, calls, ev>>

\* ------------------------------------------------------------ tasks
\* BridgeToken: type and allowed (name, symbol, units and the two contract
\* handles are fixed by the address); Absent stands for undefined
Absent == [type |-> None, allowed |-> FALSE]
BridgeToken(type, allowed) == [type |-> type, allowed |-> allowed]
NoTokens == [a \in Addr |-> Absent]
Present(tokens, a) == tokens[a].type # None

\* what a callback reads of the bridgeTokens it captured: which addresses are
\* present, and their type
Types(tokens) == [a \in Addr |-> tokens[a].type]
NoTypes == Types(NoTokens)

\* An idle slot; the captured values a task does not read stay at these defaults.
NoTask ==
  [op |-> "idle", pc |-> "", addr |-> "", type |-> "", tokenId |-> FALSE,
   cWallet |-> "", cVm |-> "", cTypes |-> NoTypes, cEth |-> ZeroBalance,
   c20 |-> EmptyMap, c721 |-> EmptyMap, cC20 |-> <<>>, cC721 |-> <<>>,
   todo |-> {}, upd20 |-> EmptyMap, upd721 |-> EmptyMap]

Idle(i) == tasks[i].op = "idle"
HasFree == \E i \in Slots : Idle(i)
FreeSlot == CHOOSE i \in Slots : Idle(i) /\ \A j \in Slots : Idle(j) => i <= j

\* What a step shows: op/addr of the call that stepped, res its result
\* ("pending" while it is suspended, "ok" when its promise resolves, an error
\* name when it rejects), failed the failure that happened inside it in this
\* step, pub the state cells it published, sub whether it submitted a
\* transaction, arg the type or token id ("" when absent) the call was given.
EvArg(op, addr, arg, res, failed, pub, sub) ==
  [op |-> op, addr |-> addr, arg |-> arg, res |-> res, failed |-> failed,
   pub |-> pub, sub |-> sub]
Ev(op, addr, res, failed, pub, sub) == EvArg(op, addr, "", res, failed, pub, sub)
NoEv == Ev("", "", "", "", {}, FALSE)

FreeSlotOf(ts) ==
  CHOOSE i \in Slots : ts[i].op = "idle" /\ \A j \in Slots : ts[j].op = "idle" => i <= j
StartIn(ts, t) == [ts EXCEPT ![FreeSlotOf(ts)] = t]
Start(t) == StartIn(tasks, t)
FreeSlots == {i \in Slots : Idle(i)}
Finish(i) == [tasks EXCEPT ![i] = NoTask]
Goto(i, pc) == [tasks EXCEPT ![i].pc = pc]

\* ------------------------------------------------------------ the ledgers
\* The four reads of updateEthBalances / of one asset's refresh: the wallet on
\* the home chain, the wallet on the child chain, the inbox balance of the
\* chain (vmId) and the inbox balance of the wallet (its lockbox).
FourTier(h) == BridgeBalance(MaxBal - h.child - h.lock, h.child, h.child, h.lock)

\* What an included transaction does to the wallet's holdings; a transaction
\* that cannot be applied fails at inclusion.
TxApplies(kind, h) ==
  CASE kind = "deposit" -> h.child + h.lock < MaxBal
    [] kind = "withdraw" -> h.child > 0
    [] OTHER -> TRUE
TxEffect(kind, h) ==
  CASE kind = "deposit" -> [h EXCEPT !.child = @ + 1]
    [] kind = "withdraw" -> [child |-> h.child - 1, lock |-> h.lock + 1]
    [] OTHER -> [h EXCEPT !.lock = 0]

\* ------------------------------------------------------------ ETH methods
NativeOps == {"depositEth", "withdrawEth", "withdrawLockboxETH"}
TxKind(op) ==
  CASE op \in {"depositEth", "depositToken"} -> "deposit"
    [] op \in {"withdrawEth", "withdrawToken"} -> "withdraw"
    [] OTHER -> "claim"

\* mutant: the guard looks at the provider only
EthGuardFails_ProviderOnly(provider, vm, wallet) == ~provider

\* updateEthBalances, lines 140-141: the guard on the captured identity
EthGuardFails(provider, vm, wallet) == ~provider \/ vm = "" \/ wallet = ""

\* mutant: every update is published
EthDiffers_Always(captured, update) == TRUE

\* updateEthBalances, lines 151-167: the update is published when it differs
\* from the ethBalances the callback captured
EthDiffers(captured, update) == captured # update

CallUpdateEthBalances ==
  /\ mounted /\ calls < MaxCalls /\ HasFree
  /\ calls' = calls + 1
  /\ IF EthGuardFails(arbProvider, vmId, walletAddress)
     THEN /\ tasks' = tasks
          /\ ev' = Ev("updateEthBalances", "", "IdentityUnresolved", "IdentityUnresolved", {}, FALSE)
     ELSE /\ tasks' = Start([NoTask EXCEPT !.op = "updateEthBalances", !.pc = "read",
                                           !.cWallet = walletAddress, !.cVm = vmId,
                                           !.cEth = ethBalances])
          /\ ev' = Ev("updateEthBalances", "", "pending", "", {}, FALSE)
  /\ UNCHANGED <<progVars, ledgerVars, mounted, dirty>>

\* the reads resolve (or one rejects); the comparison and setEthBalances run
\* in the continuation of the last read
UpdateEthRead(i) ==
  /\ tasks[i].op = "updateEthBalances" /\ tasks[i].pc = "read"
  /\ tasks' = Finish(i)
  /\ \E readOk \in BOOLEAN :
       LET update == FourTier(ethLedger)
           publish == readOk /\ EthDiffers(tasks[i].cEth, update)
       IN /\ ethBalances' = IF publish THEN update ELSE ethBalances
          /\ dirty' = (dirty \/ publish)
          /\ ev' = Ev("updateEthBalances", "",
                      IF readOk THEN "ok" ELSE "LedgerReadFailed",
                      IF readOk THEN "" ELSE "LedgerReadFailed",
                      IF publish THEN {"eth"} ELSE {}, FALSE)
  /\ UNCHANGED <<arbProvider, walletAddress, vmId, bridgeTokens, erc20Balances,
                 erc721Balances, ERC20Cache, ERC721Cache, ledgerVars, mounted, calls>>

\* depositEth / withdrawEth / withdrawLockboxETH, lines 170-214.  depositEth
\* requires arbWallet and walletAddress, the other two the provider only.
NativeGuardFails(op) ==
  IF op = "depositEth" THEN ~arbProvider \/ walletAddress = "" ELSE ~arbProvider

\* what the call's promise settles to when `failure` happened inside the try
\* block: the catch logs it and the function returns
NativeSettles(failure) == "ok"

CallNative(op) ==
  /\ mounted /\ calls < MaxCalls /\ HasFree
  /\ calls' = calls + 1
  /\ IF NativeGuardFails(op)
     THEN /\ tasks' = tasks
          /\ ev' = Ev(op, "", "IdentityUnresolved", "IdentityUnresolved", {}, FALSE)
     ELSE /\ tasks' = Start([NoTask EXCEPT !.op = op, !.pc = "submit",
                                           !.cWallet = walletAddress, !.cVm = vmId,
                                           !.cEth = ethBalances])
          /\ ev' = Ev(op, "", "pending", "", {}, FALSE)
  /\ UNCHANGED <<progVars, ledgerVars, mounted, dirty>>

\* mutant: tx.wait() is not awaited
AfterAwait_NoWait(pc) == "refresh"

\* lines 176-178 (191-193, 208-210): the awaits of the try block in order:
\* the submission, tx.wait(), updateEthBalances()
AfterAwait(pc) == IF pc = "submit" THEN "wait" ELSE "refresh"

\* await arbWallet.depositETH(...) and its like: the submission
NativeSubmit(i) ==
  /\ tasks[i].op \in NativeOps /\ tasks[i].pc = "submit"
  /\ \E accepted \in BOOLEAN :
       IF accepted
       THEN /\ tasks' = Goto(i, AfterAwait("submit"))
            /\ ev' = Ev(tasks[i].op, "", "pending", "", {}, TRUE)
       ELSE /\ tasks' = Finish(i)
            /\ ev' = Ev(tasks[i].op, "", NativeSettles("TransactionFailed"),
                        "TransactionFailed", {}, TRUE)
  /\ UNCHANGED <<progVars, ledgerVars, mounted, dirty, calls>>

\* await tx.wait(): the inclusion
NativeWait(i) ==
  /\ tasks[i].op \in NativeOps /\ tasks[i].pc = "wait"
  /\ \E included \in BOOLEAN :
       IF included /\ TxApplies(TxKind(tasks[i].op), ethLedger)
       THEN /\ ethLedger' = TxEffect(TxKind(tasks[i].op), ethLedger)
            /\ tasks' = Goto(i, AfterAwait("wait"))
            /\ ev' = Ev(tasks[i].op, "", "pending", "", {}, FALSE)
       ELSE /\ ethLedger' = ethLedger
            /\ tasks' = Finish(i)
            /\ ev' = Ev(tasks[i].op, "", NativeSettles("TransactionFailed"),
                        "TransactionFailed", {}, FALSE)
  /\ UNCHANGED <<progVars, tokLedger, kindOf, allowance, operatorApproval, mounted, dirty, calls>>

\* await updateEthBalances(): the callback of the render the transition was
\* created in, with that render's identity and ethBalances
NativeRefresh(i) ==
  /\ tasks[i].op \in NativeOps /\ tasks[i].pc = "refresh"
  /\ tasks' = Finish(i)
  /\ \E readOk \in BOOLEAN :
       LET guardFails == EthGuardFails(TRUE, tasks[i].cVm, tasks[i].cWallet)
           update == FourTier(ethLedger)
           publish == ~guardFails /\ readOk /\ EthDiffers(tasks[i].cEth, update)
           failure == IF guardFails THEN "IdentityUnresolved"
                      ELSE IF readOk THEN "" ELSE "LedgerReadFailed"
       IN /\ ethBalances' = IF publish THEN update ELSE ethBalances
          /\ dirty' = (dirty \/ publish)
          /\ ev' = Ev(tasks[i].op, "",
                      IF failure = "" THEN "ok" ELSE NativeSettles(failure),
                      failure, IF publish THEN {"eth"} ELSE {}, FALSE)
  /\ UNCHANGED <<arbProvider, walletAddress, vmId, bridgeTokens, erc20Balances,
                 erc721Balances, ERC20Cache, ERC721Cache, ledgerVars, mounted, calls>>

\* the wallet's native holdings change outside this engine
EthLedgerChange ==
  /\ \E h \in Holdings : h # ethLedger /\ ethLedger' = h
  /\ ev' = NoEv
  /\ UNCHANGED <<progVars, tokLedger, kindOf, allowance, operatorApproval, tasks, mounted, dirty, calls>>

\* ------------------------------------------------------------ token methods
AllowanceValues == {0, MIN_APPROVAL - 1, MIN_APPROVAL}

\* the token ids of an ERC721Balance, numbered child chain first, then lockbox,
\* then home chain
Erc721Tier(h) ==
  [tokens |-> (h.child + h.lock + 1)..MaxBal, arbChainTokens |-> 1..h.child,
   totalArbTokens |-> 1..h.child,
   lockBoxTokens |-> (h.child + 1)..(h.child + h.lock)]

Range(seq) == {seq[k] : k \in DOMAIN seq}

\* {...balances, ...updates}
Merge(balances, updates) ==
  [a \in DOMAIN balances \cup DOMAIN updates |->
     IF a \in DOMAIN updates THEN updates[a] ELSE balances[a]]

Put(map, a, v) == [b \in DOMAIN map \cup {a} |-> IF b = a THEN v ELSE map[b]]

\* updateTokenBalances, lines 226-228: the tokens of the captured bridgeTokens
\* that the optional type selects ("" is no type)
Filtered(types, type) ==
  {a \in Addr : types[a] # None /\ (type = "" \/ types[a] = type)}

\* lines 221-222
TokenGuardFails == ~arbProvider \/ walletAddress = ""

\* lines 281 and 284: a map is published when the captured map and the updates
\* of this cycle are not deep-equal
MapDiffers(captured, updates) == captured # updates

CallUpdateTokenBalances(type) ==
  /\ mounted /\ calls < MaxCalls /\ HasFree
  /\ calls' = calls + 1
  /\ IF TokenGuardFails
     THEN /\ tasks' = tasks
          /\ ev' = EvArg("updateTokenBalances", "", type, "IdentityUnresolved",
                         "IdentityUnresolved", {}, FALSE)
     ELSE /\ tasks' = Start([NoTask EXCEPT !.op = "updateTokenBalances", !.pc = "read",
                                           !.type = type, !.cTypes = Types(bridgeTokens),
                                           !.c20 = erc20Balances, !.c721 = erc721Balances,
                                           !.todo = Filtered(Types(bridgeTokens), type)])
          /\ ev' = EvArg("updateTokenBalances", "", type, "pending", "", {}, FALSE)
  /\ UNCHANGED <<progVars, ledgerVars, mounted, dirty>>

\* the contract the loop reads next
NextToken(todo) == CHOOSE a \in todo : TRUE

\* lines 235-279: one iteration's four reads, added to the updates of its type
Read20(t, a) ==
  IF t.cTypes[a] = ERC20 THEN Put(t.upd20, a, FourTier(tokLedger[a])) ELSE t.upd20
Read721(t, a) ==
  IF t.cTypes[a] = ERC721 THEN Put(t.upd721, a, Erc721Tier(tokLedger[a])) ELSE t.upd721

\* the two update maps after the iteration a task is about to run
Updates20(t) == IF t.todo # {} THEN Read20(t, NextToken(t.todo)) ELSE t.upd20
Updates721(t) == IF t.todo # {} THEN Read721(t, NextToken(t.todo)) ELSE t.upd721

\* mutant: the publications are reached although the last read rejected
CycleDone_IgnoresRejection(readOk, left) == left = {}

\* lines 279-286: the comparisons and publications are reached when the loop
\* has no contract left and no read rejected
CycleDone(readOk, left) == readOk /\ left = {}

\* lines 235-286, for the stand-alone call and for the one addToken awaits:
\* one iteration of the loop (the reads may reject), and after the last one the
\* two comparisons and publications
TokenRead(i) ==
  /\ tasks[i].op \in {"updateTokenBalances", "addToken"} /\ tasks[i].pc = "read"
  /\ \E readOk \in BOOLEAN :
       LET t == tasks[i]
           upd20 == Updates20(t)
           upd721 == Updates721(t)
           left == IF t.todo # {} THEN t.todo \ {NextToken(t.todo)} ELSE {}
           last == CycleDone(readOk, left)
           p20 == last /\ MapDiffers(t.c20, upd20)
           p721 == last /\ MapDiffers(t.c721, upd721)
       IN /\ tasks' = IF readOk /\ left # {}
                      THEN [tasks EXCEPT ![i].todo = left, ![i].upd20 = upd20,
                                         ![i].upd721 = upd721]
                      ELSE Finish(i)
          /\ erc20Balances' = IF p20 THEN Merge(erc20Balances, upd20) ELSE erc20Balances
          /\ erc721Balances' = IF p721 THEN Merge(erc721Balances, upd721) ELSE erc721Balances
          /\ dirty' = (dirty \/ p20 \/ p721)
          /\ ev' = Ev(t.op, t.addr,
                      IF ~readOk THEN "LedgerReadFailed" ELSE IF last THEN "ok" ELSE "pending",
                      IF ~readOk THEN "LedgerReadFailed" ELSE "",
                      (IF p20 THEN {"erc20"} ELSE {}) \cup (IF p721 THEN {"erc721"} ELSE {}),
                      FALSE)
  /\ UNCHANGED <<arbProvider, walletAddress, vmId, bridgeTokens, ethBalances,
                 ERC20Cache, ERC721Cache, ledgerVars, mounted, calls>>

\* mutant: the guard without the look-up in bridgeTokens
AddTokenRejects_NoLookup(provider, wallet, tokens, a) ==
  IF ~provider \/ wallet = "" THEN "IdentityUnresolved"
  ELSE IF a \notin Contracts THEN "NotAContract"
  ELSE ""

\* addToken, lines 445-451.  The guard reads the captured provider and
\* identity; the code at the address is fixed on the ledger and bridgeTokens
\* is the captured one, so the two throws after the getCode await are decided
\* when the call is made.
AddTokenRejects(provider, wallet, tokens, a) ==
  IF ~provider \/ wallet = "" THEN "IdentityUnresolved"
  ELSE IF a \notin Contracts THEN "NotAContract"
  ELSE IF Present(tokens, a) THEN "AlreadyRegistered"
  ELSE ""

AddTokenTask(a, type) ==
  [NoTask EXCEPT !.op = "addToken", !.pc = "meta", !.addr = a, !.type = type,
                 !.cTypes = Types(bridgeTokens), !.c20 = erc20Balances,
                 !.c721 = erc721Balances,
                 !.cC20 = IF type = ERC20 THEN ERC20Cache ELSE <<>>,
                 !.cC721 = IF type = ERC721 THEN ERC721Cache ELSE <<>>]

CallAddToken(a, type) ==
  /\ mounted /\ calls < MaxCalls /\ HasFree
  /\ calls' = calls + 1
  /\ LET err == AddTokenRejects(arbProvider, walletAddress, bridgeTokens, a)
     IN IF err # ""
        THEN /\ tasks' = tasks
             /\ ev' = EvArg("addToken", a, type, err, err, {}, FALSE)
        ELSE /\ tasks' = Start(AddTokenTask(a, type))
             /\ ev' = EvArg("addToken", a, type, "pending", "", {}, FALSE)
  /\ UNCHANGED <<progVars, ledgerVars, mounted, dirty>>

\* mutant: the allowance must exceed MIN_APPROVAL
Allowed_Strict(type, a) ==
  IF type = ERC20 THEN allowance[a] > MIN_APPROVAL ELSE operatorApproval[a]

\* lines 481 and 507-510: allowed, from the approval state read on the ledger
Allowed(type, a) ==
  IF type = ERC20 THEN allowance[a] >= MIN_APPROVAL ELSE operatorApproval[a]

\* lines 487-489 and 512-514: the address is appended to the captured cache
\* when that does not include it, and the result is stored
CacheAfter(cache, captured, a) ==
  IF a \in Range(captured) THEN cache ELSE Append(captured, a)

\* lines 520-525: setBridgeTokens(contracts => ({...contracts, [address]: newContract}))
Insert(tokens, a, newContract) == [tokens EXCEPT ![a] = newContract]

\* lines 453-527: the metadata and approval reads resolve, the record is built,
\* the cache and the registry are written and updateTokenBalances(type) of the
\* captured render is called (its guard passed with addToken's)
AddTokenInsert(i) ==
  /\ tasks[i].op = "addToken" /\ tasks[i].pc = "meta"
  /\ kindOf[tasks[i].addr] = tasks[i].type
  /\ LET t == tasks[i]
     IN /\ bridgeTokens' = Insert(bridgeTokens, t.addr, BridgeToken(t.type, Allowed(t.type, t.addr)))
        /\ ERC20Cache' = IF t.type = ERC20 THEN CacheAfter(ERC20Cache, t.cC20, t.addr)
                         ELSE ERC20Cache
        /\ ERC721Cache' = IF t.type = ERC721 THEN CacheAfter(ERC721Cache, t.cC721, t.addr)
                          ELSE ERC721Cache
        /\ tasks' = [tasks EXCEPT ![i].pc = "read",
                                  ![i].todo = Filtered(t.cTypes, t.type)]
        /\ ev' = Ev("addToken", t.addr, "pending", "", {"tokens"}, FALSE)
  /\ dirty' = TRUE
  /\ UNCHANGED <<arbProvider, walletAddress, vmId, ethBalances, erc20Balances,
                 erc721Balances, ledgerVars, mounted, calls>>

\* lines 470-475 and 505-510: a contract of the other standard has no
\* allowance/decimals (no isApprovedForAll): the read rejects and so does addToken
AddTokenReadFails(i) ==
  /\ tasks[i].op = "addToken" /\ tasks[i].pc = "meta"
  /\ kindOf[tasks[i].addr] # tasks[i].type
  /\ tasks' = Finish(i)
  /\ ev' = Ev("addToken", tasks[i].addr, "LedgerReadFailed", "LedgerReadFailed", {}, FALSE)
  /\ UNCHANGED <<progVars, ledgerVars, mounted, dirty, calls>>

\* approveToken, lines 299-304
ApproveRejects(a) ==
  IF ~arbProvider THEN "IdentityUnresolved"
  ELSE IF ~Present(bridgeTokens, a) THEN "UnknownAsset"
  ELSE ""

\* depositToken (347-350), withdrawToken (384-387), withdrawLockboxToken
\* (412-431): the guard, the lookup in bridgeTokens and, for the lockbox of an
\* ERC721, the token id; all are decided by the captured values and the
\* arguments
\* mutant: the token id is not looked at
MissingTokenId_Unchecked(op, type, tokenId) == FALSE

MissingTokenId(op, type, tokenId) ==
  op = "withdrawLockboxToken" /\ type = ERC721 /\ ~tokenId

TokenTxRejects(op, a, tokenId) ==
  IF op = "depositToken" /\ (~arbProvider \/ walletAddress = "") THEN "IdentityUnresolved"
  ELSE IF op = "withdrawToken" /\ walletAddress = "" THEN "IdentityUnresolved"
  ELSE IF op = "withdrawLockboxToken" /\ ~arbProvider THEN "IdentityUnresolved"
  ELSE IF ~Present(bridgeTokens, a) THEN "UnknownAsset"
  ELSE IF MissingTokenId(op, bridgeTokens[a].type, tokenId) THEN "MissingTokenId"
  ELSE ""

TokenTxOps == {"depositToken", "withdrawToken", "withdrawLockboxToken"}

CallApproveToken(a) ==
  /\ mounted /\ calls < MaxCalls /\ HasFree
  /\ calls' = calls + 1
  /\ LET err == ApproveRejects(a)
     IN IF err # ""
        THEN /\ tasks' = tasks
             /\ ev' = Ev("approveToken", a, err, err, {}, FALSE)
        ELSE /\ tasks' = Start([NoTask EXCEPT !.op = "approveToken", !.pc = "submit",
                                              !.addr = a, !.type = bridgeTokens[a].type])
             /\ ev' = Ev("approveToken", a, "pending", "", {}, FALSE)
  /\ UNCHANGED <<progVars, ledgerVars, mounted, dirty>>

CallTokenTx(op, a, tokenId) ==
  /\ mounted /\ calls < MaxCalls /\ HasFree
  /\ calls' = calls + 1
  /\ LET err == TokenTxRejects(op, a, tokenId)
     IN IF err # ""
        THEN /\ tasks' = tasks
             /\ ev' = EvArg(op, a, IF tokenId THEN "1" ELSE "", err, err, {}, FALSE)
        ELSE /\ tasks' = Start([NoTask EXCEPT !.op = op, !.pc = "submit", !.addr = a,
                                              !.type = bridgeTokens[a].type,
                                              !.tokenId = tokenId])
             /\ ev' = EvArg(op, a, IF tokenId THEN "1" ELSE "", "pending", "", {}, FALSE)
  /\ UNCHANGED <<progVars, ledgerVars, mounted, dirty>>

\* the submission of approveToken and of the three token transitions; a
\* rejection is not caught
TokenSubmit(i) ==
  /\ tasks[i].op \in TokenTxOps \cup {"approveToken"} /\ tasks[i].pc = "submit"
  /\ \E accepted \in BOOLEAN :
       IF accepted
       THEN /\ tasks' = Goto(i, "wait")
            /\ ev' = Ev(tasks[i].op, tasks[i].addr, "pending", "", {}, TRUE)
       ELSE /\ tasks' = Finish(i)
            /\ ev' = Ev(tasks[i].op, tasks[i].addr, "TransactionFailed",
                        "TransactionFailed", {}, TRUE)
  /\ UNCHANGED <<progVars, ledgerVars, mounted, dirty, calls>>

\* mutant: the flag is not written
SetAllowed_None(tokens, a) == tokens

\* lines 322-335: setBridgeTokens(contracts => ... allowed: true)
SetAllowed(tokens, a) == [tokens EXCEPT ![a] = [@ EXCEPT !.allowed = TRUE]]

\* approveToken, lines 320-337: the inclusion, then the flag
ApproveWait(i) ==
  /\ tasks[i].op = "approveToken" /\ tasks[i].pc = "wait"
  /\ tasks' = Finish(i)
  /\ \E included \in BOOLEAN :
       LET t == tasks[i]
       IN IF included
          THEN /\ allowance' = IF t.type = ERC20
                               THEN [allowance EXCEPT ![t.addr] = MIN_APPROVAL]
                               ELSE allowance
               /\ operatorApproval' = IF t.type = ERC721
                                      THEN [operatorApproval EXCEPT ![t.addr] = TRUE]
                                      ELSE operatorApproval
               /\ bridgeTokens' = SetAllowed(bridgeTokens, t.addr)
               /\ dirty' = TRUE
               /\ ev' = Ev("approveToken", t.addr, "ok", "", {"tokens"}, FALSE)
          ELSE /\ UNCHANGED <<allowance, operatorApproval, bridgeTokens, dirty>>
               /\ ev' = Ev("approveToken", t.addr, "TransactionFailed",
                           "TransactionFailed", {}, FALSE)
  /\ UNCHANGED <<arbProvider, walletAddress, vmId, ethBalances, erc20Balances,
                 erc721Balances, ERC20Cache, ERC721Cache, ethLedger, tokLedger, kindOf,
                 mounted, calls>>

\* return await tx.wait() of the three token transitions
TokenWait(i) ==
  /\ tasks[i].op \in TokenTxOps /\ tasks[i].pc = "wait"
  /\ tasks' = Finish(i)
  /\ \E included \in BOOLEAN :
       LET t == tasks[i]
           kind == TxKind(t.op)
       IN IF included /\ TxApplies(kind, tokLedger[t.addr])
          THEN /\ tokLedger' = [tokLedger EXCEPT ![t.addr] = TxEffect(kind, @)]
               /\ ev' = Ev(t.op, t.addr, "ok", "", {}, FALSE)
          ELSE /\ tokLedger' = tokLedger
               /\ ev' = Ev(t.op, t.addr, "TransactionFailed", "TransactionFailed", {}, FALSE)
  /\ UNCHANGED <<progVars, ethLedger, kindOf, allowance, operatorApproval, mounted, dirty, calls>>

\* ------------------------------------------------------------ the ledgers change
TokLedgerChange(a) ==
  /\ \E h \in Holdings : h # tokLedger[a] /\ tokLedger' = [tokLedger EXCEPT ![a] = h]
  /\ ev' = NoEv
  /\ UNCHANGED <<progVars, ethLedger, kindOf, allowance, operatorApproval, tasks, mounted, dirty, calls>>

AllowanceChange(a) ==
  /\ kindOf[a] = ERC20
  /\ \E v \in AllowanceValues : v # allowance[a] /\ allowance' = [allowance EXCEPT ![a] = v]
  /\ ev' = NoEv
  /\ UNCHANGED <<progVars, ethLedger, tokLedger, kindOf, operatorApproval, tasks, mounted, dirty, calls>>

OperatorApprovalChange(a) ==
  /\ kindOf[a] = ERC721
  /\ operatorApproval' = [operatorApproval EXCEPT ![a] = ~@]
  /\ ev' = NoEv
  /\ UNCHANGED <<progVars, ethLedger, tokLedger, kindOf, allowance, tasks, mounted, dirty, calls>>

\* ------------------------------------------------------------ effects
\* the addToken calls of the load only effect, in the order it makes them
RestoreCalls ==
  [k \in 1..Len(ERC20Cache) |-> <<ERC20Cache[k], ERC20>>]
    \o [k \in 1..Len(ERC721Cache) |-> <<ERC721Cache[k], ERC721>>]

RestoreAccepted(c) == AddTokenRejects(arbProvider, walletAddress, bridgeTokens, c[1]) = ""

RECURSIVE StartAll(_, _)
StartAll(ts, cs) ==
  IF cs = <<>> THEN ts
  ELSE StartAll(StartIn(ts, AddTokenTask(Head(cs)[1], Head(cs)[2])), Tail(cs))

\* lines 543-557: the load only effect runs once, after the first render, and
\* calls the addToken of that render for every cached address without
\* awaiting or catching
LoadCache ==
  /\ ~mounted
  /\ mounted' = TRUE
  /\ LET accepted == SelectSeq(RestoreCalls, RestoreAccepted)
     IN /\ Len(accepted) <= Cardinality(FreeSlots)
        /\ tasks' = StartAll(tasks, accepted)
        /\ ev' = Ev("loadCache", "", "ok",
                    IF Len(accepted) < Len(RestoreCalls) THEN "unhandled rejection" ELSE "",
                    {}, FALSE)
  /\ UNCHANGED <<progVars, ledgerVars, dirty, calls>>

\* mutant: the persisted list survives the call
Cleared_Kept(cache) == cache

\* clearERC20Cache() / clearERC721Cache(): the key is removed from local
\* storage and the hook yields its default, the empty list
Cleared(cache) == <<>>

\* lines 537-540: expireCache is a plain function of the render; it writes the
\* two persisted lists only, and no callback of the effect depends on them
ExpireCache ==
  /\ mounted /\ calls < MaxCalls
  /\ calls' = calls + 1
  /\ ERC20Cache' = Cleared(ERC20Cache)
  /\ ERC721Cache' = Cleared(ERC721Cache)
  /\ ev' = Ev("expireCache", "", "ok", "", {"cache"}, FALSE)
  /\ UNCHANGED <<arbProvider, walletAddress, vmId, bridgeTokens, ethBalances, erc20Balances,
                 erc721Balances, ledgerVars, tasks, mounted, dirty>>

\* line 133: useArbProvider delivers the provider
ProviderReady ==
  /\ mounted /\ ~arbProvider
  /\ arbProvider' = TRUE
  /\ dirty' = TRUE
  /\ ev' = NoEv
  /\ UNCHANGED <<walletAddress, vmId, bridgeTokens, ethBalances, erc20Balances,
                 erc721Balances, ERC20Cache, ERC721Cache, ledgerVars, tasks, mounted, calls>>

\* lines 560-567: the effect finds the identity unset and sets both parts
ResolveIdentity ==
  /\ dirty /\ arbProvider /\ (walletAddress = "" \/ vmId = "")
  /\ walletAddress' = "wallet" /\ vmId' = "vm"
  /\ dirty' = TRUE
  /\ ev' = NoEv
  /\ UNCHANGED <<arbProvider, bridgeTokens, ethBalances, erc20Balances, erc721Balances,
                 ERC20Cache, ERC721Cache, ledgerVars, tasks, mounted, calls>>

\* lines 568-574 and 532-535: the effect runs again after a render that changed
\* updateAllBalances (any of its captured state) and calls it:
\* Promise.all([updateEthBalances(), updateTokenBalances()])
Reconcile ==
  /\ dirty /\ arbProvider /\ walletAddress # "" /\ vmId # ""
  /\ Cardinality(FreeSlots) >= 2
  /\ dirty' = FALSE
  /\ tasks' = StartIn(StartIn(tasks,
                 [NoTask EXCEPT !.op = "updateEthBalances", !.pc = "read",
                                !.cWallet = walletAddress, !.cVm = vmId,
                                !.cEth = ethBalances]),
                 [NoTask EXCEPT !.op = "updateTokenBalances", !.pc = "read",
                                !.cTypes = Types(bridgeTokens), !.c20 = erc20Balances,
                                !.c721 = erc721Balances,
                                !.todo = Filtered(Types(bridgeTokens), "")])
  /\ ev' = Ev("updateAllBalances", "", "pending", "", {}, FALSE)
  /\ UNCHANGED <<progVars, ledgerVars, mounted, calls>>

\* ------------------------------------------------------------ specification
\* the persisted caches the hook may find at startup
CacheInputs20 == {<<>>, <<"t1", "x">>}
CacheInputs721 == {<<>>, <<"t2">>}

\* the standards the two contracts may implement
KindInputs == {[a \in Contracts |-> ERC20], [a \in Contracts |-> IF a = "t1" THEN ERC20 ELSE ERC721]}

InitWith(caches20, caches721) ==
  /\ arbProvider = FALSE
  /\ walletAddress = "" /\ vmId = ""
  /\ bridgeTokens = NoTokens
  /\ ethBalances = ZeroBalance
  /\ erc20Balances = EmptyMap /\ erc721Balances = EmptyMap
  /\ ERC20Cache \in caches20 /\ ERC721Cache \in caches721
  /\ ethLedger = AtHome
  /\ tokLedger = [a \in Contracts |-> AtHome]
  /\ kindOf \in KindInputs
  /\ allowance = [a \in Contracts |-> 0]
  /\ operatorApproval = [a \in Contracts |-> FALSE]
  /\ tasks = [i \in Slots |-> NoTask]
  /\ mounted = FALSE /\ dirty = FALSE /\ calls = 0
  /\ ev = NoEv

\* a first start: nothing persisted
Init == InitWith({<<>>}, {<<>>})

\* a start that finds persisted caches
InitRestore == InitWith(CacheInputs20, CacheInputs721)

Startup == LoadCache \/ ProviderReady \/ ResolveIdentity \/ Reconcile

NativeNext ==
  \/ CallUpdateEthBalances
  \/ \E op \in NativeOps : CallNative(op)
  \/ \E i \in Slots : UpdateEthRead(i) \/ NativeSubmit(i) \/ NativeWait(i) \/ NativeRefresh(i)
  \/ EthLedgerChange

AssetNext ==
  \/ \E type \in TokenType \cup {""} : CallUpdateTokenBalances(type)
  \/ \E a \in Addr, type \in TokenType : CallAddToken(a, type)
  \/ \E a \in Addr : CallApproveToken(a)
  \/ \E op \in TokenTxOps, a \in Addr, tokenId \in BOOLEAN : CallTokenTx(op, a, tokenId)
  \/ \E i \in Slots : TokenRead(i) \/ AddTokenInsert(i) \/ AddTokenReadFails(i)
                        \/ TokenSubmit(i) \/ ApproveWait(i) \/ TokenWait(i)
  \/ \E a \in Contracts : TokLedgerChange(a) \/ AllowanceChange(a) \/ OperatorApprovalChange(a)

Next == Startup \/ NativeNext \/ AssetNext

Spec == Init /\ [][Next]_vars

\* the caller uses the native-currency surface only
SpecNative == Init /\ [][Startup \/ NativeNext]_vars

\* the reconcile effect's refresh of the native balance
EffectNative == \E i \in Slots : UpdateEthRead(i)

\* the caller registers and approves assets while approvals change on the ledger
RegistryNext ==
  \/ \E a \in Addr, type \in TokenType : CallAddToken(a, type)
  \/ \E a \in Addr : CallApproveToken(a)
  \/ \E i \in Slots : TokenRead(i) \/ AddTokenInsert(i) \/ AddTokenReadFails(i)
                        \/ TokenSubmit(i) \/ ApproveWait(i)
  \/ \E a \in Contracts : AllowanceChange(a) \/ OperatorApprovalChange(a)

SpecRegistry == Init /\ [][Startup \/ EffectNative \/ RegistryNext]_vars

\* the caller registers assets and refreshes their balances while the
\* holdings change on the ledger
BalancesNext ==
  \/ \E type \in TokenType \cup {""} : CallUpdateTokenBalances(type)
  \/ \E a \in Addr, type \in TokenType : CallAddToken(a, type)
  \/ \E i \in Slots : TokenRead(i) \/ AddTokenInsert(i) \/ AddTokenReadFails(i)
  \/ \E a \in Contracts : TokLedgerChange(a)

SpecBalances == Init /\ [][Startup \/ EffectNative \/ BalancesNext]_vars

\* the caller registers assets and deposits, withdraws and claims them
TransitionsNext ==
  \/ \E a \in Addr, type \in TokenType : CallAddToken(a, type)
  \/ \E op \in TokenTxOps, a \in Addr, tokenId \in BOOLEAN : CallTokenTx(op, a, tokenId)
  \/ \E i \in Slots : TokenRead(i) \/ AddTokenInsert(i) \/ AddTokenReadFails(i)
                        \/ TokenSubmit(i) \/ TokenWait(i)

SpecTransitions == Init /\ [][Startup \/ EffectNative \/ TransitionsNext]_vars

\* a start with persisted caches, after which the caller registers assets
RestoreNext ==
  \/ \E a \in Addr, type \in TokenType : CallAddToken(a, type)
  \/ \E i \in Slots : TokenRead(i) \/ AddTokenInsert(i) \/ AddTokenReadFails(i)

SpecRestore == InitRestore /\ [][Startup \/ EffectNative \/ RestoreNext]_vars

\* the caller registers assets and expires the cache
SpecCache == Init /\ [][Startup \/ EffectNative \/ RestoreNext \/ ExpireCache]_vars

\* the caller refreshes balances, registers assets and moves native currency
\* from the first render on, before and after the identity is resolved
SpecIdentity ==
  Init /\ [][Startup \/ NativeNext
               \/ (\E type \in TokenType \cup {""} : CallUpdateTokenBalances(type))
               \/ (\E a \in Addr, type \in TokenType : CallAddToken(a, type))
               \/ (\E i \in Slots : TokenRead(i) \/ AddTokenInsert(i) \/ AddTokenReadFails(i))]_vars

\* the caller refreshes and moves native currency and registers assets; the
\* ledgers change only by the engine's own transactions.  The effects and the
\* continuations of the awaits are run by the event loop: each is taken if it
\* stays enabled.
QuiesceNext ==
  \/ LoadCache \/ ProviderReady \/ ResolveIdentity \/ Reconcile
  \/ CallUpdateEthBalances
  \/ \E op \in NativeOps : CallNative(op)
  \/ \E a \in Addr, type \in TokenType : CallAddToken(a, type)
  \/ \E i \in Slots : UpdateEthRead(i) \/ NativeSubmit(i) \/ NativeWait(i) \/ NativeRefresh(i)
  \/ \E i \in Slots : TokenRead(i) \/ AddTokenInsert(i) \/ AddTokenReadFails(i)

QuiesceFairness ==
  /\ WF_vars(LoadCache) /\ WF_vars(ResolveIdentity) /\ WF_vars(Reconcile)
  /\ \A i \in Slots :
       /\ WF_vars(UpdateEthRead(i)) /\ WF_vars(NativeSubmit(i)) /\ WF_vars(NativeWait(i))
       /\ WF_vars(NativeRefresh(i)) /\ WF_vars(TokenRead(i)) /\ WF_vars(AddTokenInsert(i))
       /\ WF_vars(AddTokenReadFails(i))

SpecQuiesce == Init /\ [][QuiesceNext]_vars /\ QuiesceFairness

\* ------------------------------------------------------------ properties
balances == <<ethBalances, erc20Balances, erc721Balances>>

\* the step is a call made by the caller
IsCall == calls' = calls + 1

\* C1: a register call made on an address that is in the Registry fails with
\* AlreadyRegistered, starts nothing and leaves the Registry unchanged,
\* whichever kind it is given.
C1_SecondRegisterRejected ==
  [][(ev'.op = "addToken" /\ IsCall /\ Present(bridgeTokens, ev'.addr))
       => (ev'.res = "AlreadyRegistered" /\ tasks' = tasks /\ bridgeTokens' = bridgeTokens)]_vars

C1_Witness ==
  /\ ev.op = "addToken" /\ ev.res = "AlreadyRegistered"
  /\ ev.arg # bridgeTokens[ev.addr].type

\* C2 (as claimed): once a record's approved flag is true it is true in every
\* later state.
C2_ApprovedWriteOnce ==
  [][\A a \in Contracts : bridgeTokens[a].allowed => bridgeTokens'[a].allowed]_vars

\* the cached addresses that are contracts of the kind they are cached under
ValidCached ==
  {a \in Range(ERC20Cache) \cap Contracts : kindOf[a] = ERC20}
    \cup {a \in Range(ERC721Cache) \cap Contracts : kindOf[a] = ERC721}

\* C3 (as claimed): when the register calls of the startup restore have all
\* settled, every valid cached address is in the Registry.
C3_RestoreRegistersValid ==
  (ev.op = "loadCache" /\ \A i \in Slots : Idle(i))
    => \A a \in ValidCached : Present(bridgeTokens, a)

\* C4 (as claimed): a call whose transaction failed at submission or inclusion
\* ends in TransactionFailed.
C4_TransactionFailuresSurfaced ==
  ev.failed = "TransactionFailed" => ev.res = "TransactionFailed"

\* C5 (as claimed): a refresh publishes a kind's map only if that changes the
\* published map of the kind, and a refresh filtered to one kind does not
\* publish the map of the other.
C5_PublishOnlyOnDifference ==
  [][/\ "erc20" \in ev'.pub => erc20Balances' # erc20Balances
     /\ "erc721" \in ev'.pub => erc721Balances' # erc721Balances
     /\ \A i \in Slots :
          (tasks[i].op = "updateTokenBalances" /\ tasks'[i] # tasks[i])
            => /\ tasks[i].type = ERC721 => "erc20" \notin ev'.pub
               /\ tasks[i].type = ERC20 => "erc721" \notin ev'.pub]_vars

\* a value of this cycle's updates differs from the published one
Changed(published, updates) ==
  \E a \in DOMAIN updates : a \notin DOMAIN published \/ published[a] # updates[a]

\* C6 (as claimed): when a refresh cycle completes and a value it read for a
\* kind differs from the published one, it publishes that kind's map and the
\* published map then holds every value the cycle read for the kind.
C6_ChangedValueUpdatesMap ==
  [][\A i \in Slots :
       (tasks[i].op = "updateTokenBalances" /\ tasks'[i] # tasks[i] /\ ev'.res = "ok")
         => /\ Changed(erc20Balances, Updates20(tasks[i]))
                 => /\ "erc20" \in ev'.pub
                    /\ ~Changed(erc20Balances', Updates20(tasks[i]))
            /\ Changed(erc721Balances, Updates721(tasks[i]))
                 => /\ "erc721" \in ev'.pub
                    /\ ~Changed(erc721Balances', Updates721(tasks[i]))]_vars

\* C7 (as claimed): no publication of the native balance replaces the
\* published value with a structurally equal one.
C7_NativePublishOnlyOnDifference ==
  [][("eth" \in ev'.pub) => ethBalances' # ethBalances]_vars

\* C8: a lockbox claim called on a registered non-fungible asset without a
\* token id fails with MissingTokenId, starts nothing, submits nothing and
\* leaves Registry and balances unchanged; no claim without a token id is ever
\* in flight for a non-fungible asset.
C8_MissingTokenIdRejected ==
  [][/\ (/\ ev'.op = "withdrawLockboxToken" /\ IsCall /\ ev'.arg = ""
         /\ bridgeTokens[ev'.addr].type = ERC721)
          => /\ ev'.res = "MissingTokenId" /\ ~ev'.sub /\ tasks' = tasks
             /\ UNCHANGED <<bridgeTokens, balances, ledgerVars>>
     /\ \A i \in Slots :
          ~(tasks'[i].op = "withdrawLockboxToken" /\ tasks'[i].type = ERC721
            /\ ~tasks'[i].tokenId)]_vars

C8_Witness == ev.op = "withdrawLockboxToken" /\ ev.res = "MissingTokenId"

\* C9: the record a register call inserts has the kind it was given and
\* approved equal to the approval state on the ledger at that moment
\* (fungible: allowance >= the sentinel; non-fungible: the operator flag), and
\* after an approve call succeeded approved is true.
C9_ApprovedFromLedger ==
  [][/\ \A i \in Slots :
          (tasks[i].op = "addToken" /\ tasks[i].pc = "meta" /\ tasks'[i].pc = "read")
            => bridgeTokens'[tasks[i].addr] =
                 [type |-> tasks[i].type,
                  allowed |-> IF tasks[i].type = ERC20
                              THEN allowance[tasks[i].addr] >= MIN_APPROVAL
                              ELSE operatorApproval[tasks[i].addr]]
     /\ (ev'.op = "approveToken" /\ ev'.res = "ok") => bridgeTokens'[ev'.addr].allowed]_vars

\* a fungible asset is approved by its registration, the only call made
C9_Witness ==
  /\ ev.op = "addToken" /\ "tokens" \in ev.pub /\ calls = 1
  /\ bridgeTokens[ev.addr] = BridgeToken(ERC20, TRUE)

\* C10: a step in which a ledger read fails, and every step that leaves its
\* call unfinished, publishes no balance and leaves the native balance and
\* both maps as they are: a refresh cycle writes balances only in the step
\* that completes it.
C10_FailedRefreshPublishesNothing ==
  [][(ev'.failed = "LedgerReadFailed" \/ ev'.res = "pending")
       => (ev'.pub \cap {"eth", "erc20", "erc721"} = {} /\ UNCHANGED balances)]_vars

\* a refresh of two fungible assets failed and the published map still holds
\* the older values
C10_Witness ==
  /\ ev.op = "updateTokenBalances" /\ ev.failed = "LedgerReadFailed"
  /\ DOMAIN erc20Balances = Contracts
  /\ \E a \in Contracts : erc20Balances[a] # FourTier(tokLedger[a])

IdentityUnresolved == walletAddress = "" \/ vmId = ""
InitialBalances == <<ZeroBalance, EmptyMap, EmptyMap>>

\* C11: while the identity is unresolved the published native balance and both
\* maps hold their initial values, and a refreshNative or refreshAssets call
\* fails with IdentityUnresolved and starts nothing.
C11_NoBalanceBeforeIdentity ==
  [][/\ IdentityUnresolved => balances = InitialBalances
     /\ (walletAddress' = "" \/ vmId' = "") => balances' = InitialBalances
     /\ (IdentityUnresolved /\ IsCall /\ ev'.op \in {"updateEthBalances", "updateTokenBalances"})
          => (ev'.res = "IdentityUnresolved" /\ tasks' = tasks)]_vars

\* a refreshAssets call rejected after the provider arrived and before the
\* identity was resolved
C11_Witness ==
  /\ ev.op = "updateTokenBalances" /\ ev.res = "IdentityUnresolved"
  /\ arbProvider /\ IdentityUnresolved

\* C12 (as claimed): a depositNative or withdrawNative call made while the
\* identity is unresolved fails and starts nothing, and no deposit or withdraw
\* transaction is submitted by a call made without identity.
C12_NativeRequiresIdentity ==
  [][/\ (IdentityUnresolved /\ IsCall /\ ev'.op \in {"depositEth", "withdrawEth"})
          => (ev'.res = "IdentityUnresolved" /\ tasks' = tasks)
     /\ \A i \in Slots :
          (tasks[i].op \in {"depositEth", "withdrawEth"} /\ tasks[i].pc = "submit"
           /\ tasks'[i] # tasks[i])
            => (tasks[i].cWallet # "" /\ tasks[i].cVm # "")]_vars

\* C13: an expireCache call leaves both persisted caches empty and leaves the
\* Registry, the native balance, both balance maps and the calls in flight
\* as they are.
C13_ExpireCacheFrame ==
  [][(ev'.op = "expireCache" /\ IsCall)
       => /\ ERC20Cache' = <<>> /\ ERC721Cache' = <<>>
          /\ UNCHANGED <<bridgeTokens, balances, tasks>>]_vars

\* the cache was expired while an asset is registered
C13_Witness ==
  /\ ev.op = "expireCache" /\ ERC20Cache = <<>> /\ ERC721Cache = <<>>
  /\ \E a \in Contracts : Present(bridgeTokens, a)

\* C14 (as claimed): an AssetRecord is inserted at most once: no register call
\* writes the record of an address that already has one, and a record's kind
\* never changes.
C14_RecordInsertedOnce ==
  [][/\ (ev'.op = "addToken" /\ "tokens" \in ev'.pub) => ~Present(bridgeTokens, ev'.addr)
     /\ \A a \in Contracts :
          Present(bridgeTokens, a) => bridgeTokens'[a].type = bridgeTokens[a].type]_vars

CacheOf(type) == IF type = ERC20 THEN ERC20Cache ELSE ERC721Cache
NoDuplicates(seq) == Cardinality(Range(seq)) = Len(seq)

\* C15 (as claimed; expireCache is never called in the specification this is
\* checked under): every registered address is in the persisted cache of its
\* kind, and no cache holds an address twice.
C15_RegisteredAreCached ==
  /\ \A a \in Contracts :
       Present(bridgeTokens, a) => a \in Range(CacheOf(bridgeTokens[a].type))
  /\ NoDuplicates(ERC20Cache) /\ NoDuplicates(ERC721Cache)

BalancesOf(type) == IF type = ERC20 THEN erc20Balances ELSE erc721Balances

\* C16 (as claimed): every key of a balance map is registered with the
\* matching kind, and when a register call returns successfully the balance
\* map of its kind holds an entry for its address.
C16_BalanceEntryIffRegistered ==
  [][/\ \A a \in DOMAIN erc20Balances' : bridgeTokens'[a].type = ERC20
     /\ \A a \in DOMAIN erc721Balances' : bridgeTokens'[a].type = ERC721
     /\ \A i \in Slots :
          (tasks[i].op = "addToken" /\ tasks'[i] # tasks[i] /\ ev'.res = "ok")
            => tasks[i].addr \in DOMAIN BalancesOf(tasks[i].type)']_vars

\* C17: in depositNative, withdrawNative and claimNativeLockbox a call starts
\* at the submission; the refresh is entered only from the wait, in the step
\* that includes the transaction on the ledger; a balance is published by the
\* call only in the refresh and is the ledger's value of that moment; and the
\* call returns normally only from the refresh or after its transaction failed.
C17_SubmitWaitRefresh ==
  [][\A i \in Slots :
       LET t == tasks[i]
           u == tasks'[i]
       IN /\ (u.op \in NativeOps /\ t.op = "idle") => u.pc = "submit"
          /\ (u.op \in NativeOps /\ u.pc = "wait" /\ t # u)
               => (t.pc = "submit" /\ ev'.sub)
          /\ (u.op \in NativeOps /\ u.pc = "refresh" /\ t # u)
               => /\ t.pc = "wait"
                  /\ TxApplies(TxKind(t.op), ethLedger)
                  /\ ethLedger' = TxEffect(TxKind(t.op), ethLedger)
          /\ (t.op \in NativeOps /\ t # u /\ "eth" \in ev'.pub)
               => (t.pc = "refresh" /\ ethBalances' = FourTier(ethLedger))
          /\ (t.op \in NativeOps /\ t # u /\ u.op = "idle")
               => (t.pc = "refresh" \/ ev'.failed = "TransactionFailed")]_vars

\* a transition returned after its refresh published the ledger's values
C17_Witness ==
  /\ ev.op \in NativeOps /\ ev.res = "ok" /\ "eth" \in ev.pub
  /\ ethLedger # AtHome /\ ethBalances = FourTier(ethLedger)

LedgerApproved(type, a, allowances, approvals) ==
  IF type = ERC20 THEN allowances[a] >= MIN_APPROVAL ELSE approvals[a]

\* C18: an approve call changes nothing when it is made, when it submits and
\* when its transaction fails at submission or inclusion; it changes the
\* Registry only in the step that ends its wait with the transaction included
\* on the ledger, and then only by setting its asset's approved flag; it never
\* changes a balance.
C18_ApproveMutatesAfterInclusion ==
  [][/\ (ev'.op = "approveToken" /\ IsCall) => UNCHANGED <<bridgeTokens, balances>>
     /\ \A i \in Slots :
          (tasks[i].op = "approveToken" /\ tasks'[i] # tasks[i])
            => IF ev'.res = "ok"
               THEN /\ tasks[i].pc = "wait"
                    /\ LedgerApproved(tasks[i].type, tasks[i].addr, allowance', operatorApproval')
                    /\ bridgeTokens' = [bridgeTokens EXCEPT ![tasks[i].addr].allowed = TRUE]
                    /\ UNCHANGED balances
               ELSE UNCHANGED <<bridgeTokens, balances>>]_vars

\* an approval failed and its asset is still registered as not approved
C18_Witness ==
  /\ ev.op = "approveToken" /\ ev.failed = "TransactionFailed" /\ ~ev.sub
  /\ Present(bridgeTokens, ev.addr) /\ ~bridgeTokens[ev.addr].allowed

\* C19 (as claimed): when a refreshNative, stand-alone or inside a native
\* transition, completes without a failure, the published native balance is
\* the four values it read.
C19_RefreshLeavesNoStaleValue ==
  [][\A i \in Slots :
       (/\ \/ tasks[i].op = "updateEthBalances"
            \/ (tasks[i].op \in NativeOps /\ tasks[i].pc = "refresh")
        /\ tasks'[i] # tasks[i] /\ ev'.failed = "")
         => ethBalances' = FourTier(ethLedger)]_vars

\* the published balances are the ledger's values for the native currency
\* and for every registered asset
Converged ==
  /\ ethBalances = FourTier(ethLedger)
  /\ \A a \in Contracts :
       /\ bridgeTokens[a].type = ERC20
            => (a \in DOMAIN erc20Balances /\ erc20Balances[a] = FourTier(tokLedger[a]))
       /\ bridgeTokens[a].type = ERC721
            => (a \in DOMAIN erc721Balances /\ erc721Balances[a] = Erc721Tier(tokLedger[a]))

\* no reconciliation is pending and no call is in flight
Quiescent == ~dirty /\ \A i \in Slots : Idle(i)

====
